---- MODULE Spec2Model ----
(***************************************************************************)
(* devlab: the Scenario Lifecycle Manager (internal/scenario), the         *)
(* metadata store (internal/storage), the container runtime client         *)
(* (internal/docker) and the cleanup worker (internal/cleanup).            *)
(*                                                                         *)
(* The runtime is the map of the containers the engine knows, the store    *)
(* is the "scenarios" collection with its unique index on scenario_id.     *)
(* Every manager operation is one action; the worker is one background     *)
(* process (cmd/worker) whose loop runs one cleanup cycle per ticker tick;  *)
(* manager calls interleave with its cycles.  Each call to a collaborator  *)
(* may fail: the failure an operation meets is an input of its action.     *)
(***************************************************************************)
EXTENDS Integers, Sequences, FiniteSets, TLC

\* ------------------------------------------------------------------ bounds
\* Clock readings are 0..MaxTime (one unit is one instant of time.Now()).
MaxTime == 2
\* Number of containers the engine creates in one behaviour.
MaxContainers == 2
\* Number of scenario documents inserted in one behaviour.
MaxScenarios == 2
\* Number of lines of the output of find that the tree builder is given.
MaxLines == 4

\* ------------------------------------------------------- program constants
\* cm.cfg.Cleanup.MaxScenarioAge, in clock units.
MaxScenarioAge == 1
\* findAvailablePort probes FirstPort .. LastPort.
FirstPort == 3001
LastPort == 3009

VARIABLES
  now,         \* the wall clock read by time.Now()
  containers,  \* runtime: container id -> [state, port]
  nextCid,     \* the id the engine gives the next container it creates
  store,       \* scenarios collection: its documents in natural order
  uniqueIndex, \* the collection has the unique index on scenario_id
  last,        \* journal of the last manager call (its inputs and results)
  w,           \* the worker process: where its loop and its main are, its ctx
  inflight     \* the call that is between two of its steps

vars == <<now, containers, nextCid, store, uniqueIndex, last, w, inflight>>

\* ------------------------------------------------------------------ values
UserIDs == {"", "u1"}
ScenarioTypes == {"", "go"}

\* fmt.Sprintf("scn-%d", time.Now().UnixNano())
ScenarioIDOf(t) == <<"scn", t>>
EmptyID == <<>>
\* an id that StartScenario never issued
MissingID == ScenarioIDOf(-1)

\* container ids are 1, 2, ...; 0 is the empty string
NoContainer == 0

Min(S) == CHOOSE x \in S : \A y \in S : x <= y

\* the elements of a finite set of integers in ascending order
RECURSIVE SortedSeq(_)
SortedSeq(S) ==
  IF S = {} THEN <<>> ELSE <<Min(S)>> \o SortedSeq(S \ {Min(S)})

Remove(f, k) == [x \in (DOMAIN f) \ {k} |-> f[x]]
Put(f, k, v) == [x \in (DOMAIN f) \cup {k} |-> IF x = k THEN v ELSE f[x]]

\* ----------------------------------------------------- the runtime client
\* Each operation takes the engine's container map cs and the failure f it
\* meets ("none": every engine request is answered) and yields its error
\* and the container map it leaves.

\* ports held by running containers: net.Listen on them fails
BusyPorts(cs) == {cs[c].port : c \in {d \in DOMAIN cs : cs[d].state = "running"}}

\* the loop of findAvailablePort from port on: the port it returns (0 stands
\* for ErrPortUnavailable) and the ports it called net.Listen on, in order
RECURSIVE ProbePort(_, _, _)
ProbePort(port, busy, probes) ==
  IF port >= LastPort + 1 THEN [port |-> 0, probes |-> probes]
  ELSE IF port \notin busy THEN [port |-> port, probes |-> Append(probes, port)]
  ELSE ProbePort(port + 1, busy, Append(probes, port))

\* starts one port below the range
portProbesFromBelow(busy) == ProbePort(FirstPort - 1, busy, <<>>)

portProbes(busy) == ProbePort(FirstPort, busy, <<>>)

findAvailablePort(busy) == portProbes(busy).port

StartContainerFaults == {"none", "daemon", "create", "start", "inspect", "exited"}

\* made: the engine created a container (and spent the id cid) in this call
StartScenarioContainer(cs, cid, scenarioType, f) ==
  LET port == findAvailablePort(BusyPorts(cs))
      fail(e, cs2, m) == [err |-> e, cs |-> cs2, id |-> NoContainer, port |-> 0, made |-> m]
  IN
  IF f = "daemon" THEN fail("ErrDockerDaemonUnavailable", cs, FALSE)
  ELSE IF scenarioType = "" THEN fail("ErrInvalidScenarioType", cs, FALSE)
  ELSE IF port = 0 THEN fail("ErrPortUnavailable", cs, FALSE)
  ELSE IF f = "create" THEN fail("failed to create container", cs, FALSE)
  ELSE IF f = "start" THEN fail("failed to start container", cs, TRUE)
  ELSE IF f = "inspect" THEN
    fail("failed to verify container status",
         Put(cs, cid, [state |-> "running", port |-> port]), TRUE)
  ELSE IF f = "exited" THEN
    fail("ErrTTYDFailedToStart", Put(cs, cid, [state |-> "exited", port |-> port]), TRUE)
  ELSE [err |-> "nil", cs |-> Put(cs, cid, [state |-> "running", port |-> port]),
        id |-> cid, port |-> port, made |-> TRUE]

ContainerFaults == {"none", "daemon"}

\* answers that the container exists whatever the engine holds
ContainerExistsAlways(cs, c, f) ==
  IF c = NoContainer THEN [err |-> "container ID cannot be empty", exists |-> FALSE]
  ELSE IF f = "daemon" THEN [err |-> "ErrDockerDaemonUnavailable", exists |-> FALSE]
  ELSE [err |-> "nil", exists |-> TRUE]

ContainerExists(cs, c, f) ==
  IF c = NoContainer THEN [err |-> "container ID cannot be empty", exists |-> FALSE]
  ELSE IF f = "daemon" THEN [err |-> "ErrDockerDaemonUnavailable", exists |-> FALSE]
  ELSE [err |-> "nil", exists |-> c \in DOMAIN cs]

GetContainerStatus(cs, c, f) ==
  IF c = NoContainer THEN [err |-> "container ID cannot be empty", status |-> ""]
  ELSE IF f = "daemon" THEN [err |-> "ErrDockerDaemonUnavailable", status |-> ""]
  ELSE IF c \notin DOMAIN cs THEN [err |-> "ErrContainerNotFound", status |-> ""]
  ELSE [err |-> "nil", status |-> cs[c].state]

\* "daemon": no engine request is answered (the engine is unreachable or the
\* caller's context is done); "remove": the final ContainerRemove fails.
StopFaults == {"none", "daemon", "remove"}

\* has no branch for a container that has already exited
StopContainerRunningOnly(cs, c, f) ==
  IF c = NoContainer THEN [err |-> "container ID cannot be empty", cs |-> cs]
  ELSE IF f = "daemon" THEN [err |-> "ErrDockerDaemonUnavailable", cs |-> cs]
  ELSE IF c \notin DOMAIN cs THEN [err |-> "ErrContainerNotFound", cs |-> cs]
  ELSE IF cs[c].state \in {"exited", "stopped"}
  THEN [err |-> "failed to stop container", cs |-> cs]
  ELSE IF f = "remove" THEN
    [err |-> "failed to remove container", cs |-> [cs EXCEPT ![c].state = "exited"]]
  ELSE [err |-> "nil", cs |-> Remove(cs, c)]

StopContainer(cs, c, f) ==
  IF c = NoContainer THEN [err |-> "container ID cannot be empty", cs |-> cs]
  ELSE IF f = "daemon" THEN [err |-> "ErrDockerDaemonUnavailable", cs |-> cs]
  ELSE IF c \notin DOMAIN cs THEN [err |-> "ErrContainerNotFound", cs |-> cs]
  ELSE IF cs[c].state \in {"exited", "stopped"} THEN
    IF f = "remove" THEN [err |-> "failed to remove stopped container", cs |-> cs]
    ELSE [err |-> "nil", cs |-> Remove(cs, c)]
  ELSE IF f = "remove" THEN
    [err |-> "failed to remove container", cs |-> [cs EXCEPT ![c].state = "exited"]]
  ELSE [err |-> "nil", cs |-> Remove(cs, c)]

RemoveContainer(cs, c, f) ==
  IF c = NoContainer THEN [err |-> "container ID cannot be empty", cs |-> cs]
  ELSE IF f = "daemon" THEN [err |-> "ErrDockerDaemonUnavailable", cs |-> cs]
  ELSE IF c \notin DOMAIN cs THEN [err |-> "ErrContainerNotFound", cs |-> cs]
  ELSE IF f = "remove" THEN
    [err |-> "failed to remove container",
     cs |-> IF cs[c].state = "running" THEN [cs EXCEPT ![c].state = "exited"] ELSE cs]
  ELSE [err |-> "nil", cs |-> Remove(cs, c)]

ListContainers(cs, f) ==
  IF f = "daemon" THEN [err |-> "ErrDockerDaemonUnavailable", list |-> <<>>]
  ELSE [err |-> "nil", list |-> SortedSeq(DOMAIN cs)]

\* the address is the pair of host IP and host port of the 3000/tcp binding;
\* f = "nomap": the inspect answer has no binding for 3000/tcp
DockerGetTerminalURL(cs, c, f) ==
  IF c = NoContainer THEN [err |-> "container ID cannot be empty", url |-> <<>>]
  ELSE IF f = "daemon" THEN [err |-> "ErrDockerDaemonUnavailable", url |-> <<>>]
  ELSE IF c \notin DOMAIN cs THEN [err |-> "ErrContainerNotFound", url |-> <<>>]
  ELSE IF cs[c].state # "running" THEN [err |-> "ErrContainerNotRunning", url |-> <<>>]
  ELSE IF cs[c].port = 0 \/ f = "nomap"
  THEN [err |-> "port 3000 not mapped", url |-> <<>>]
  ELSE [err |-> "nil", url |-> <<"0.0.0.0", cs[c].port>>]

\* ------------------------------------------------------- the metadata store
\* The "scenarios" collection is the sequence of its documents in natural
\* (insertion) order.  f = "db": the request fails (store unreachable or the
\* caller's context is done).  f = "lost": the caller's context ends, or the
\* connection breaks, while the driver waits for the reply: the driver
\* returns an error and the server has applied the write.
StoreFaults == {"none", "db", "lost"}

\* the positions of the documents with this scenario_id
Matching(st, scenarioID) == {k \in 1..Len(st) : st[k].scenario_id = scenarioID}

\* InsertOne: a collection created by configs/mongo-init.js has a unique
\* index on scenario_id (unique = TRUE); no code creates that index, so any
\* other collection accepts a second document with the same scenario_id
InsertOne(st, s, unique) ==
  IF unique /\ Matching(st, s.scenario_id) # {}
  THEN [err |-> "duplicate key", st |-> st]
  ELSE [err |-> "nil", st |-> Append(st, s)]

\* reports success without inserting the document
StoreScenarioLost(st, s, unique, f) == [err |-> "nil", st |-> st]

StoreScenario(st, s, unique, f) ==
  IF s.scenario_id = EmptyID THEN [err |-> "ErrInvalidScenario", st |-> st]
  ELSE IF f = "db" THEN [err |-> "failed to store scenario", st |-> st]
  ELSE IF InsertOne(st, s, unique).err # "nil"
  THEN [err |-> "failed to store scenario", st |-> st]
  ELSE IF f = "lost"
  THEN [err |-> "failed to store scenario", st |-> InsertOne(st, s, unique).st]
  ELSE [err |-> "nil", st |-> InsertOne(st, s, unique).st]

\* the zero value of storage.Scenario
ZeroScenario ==
  [scenario_id |-> EmptyID, user_id |-> "", scenario_type |-> "",
   container_id |-> NoContainer, status |-> "", terminal_port |-> 0,
   created_at |-> 0, updated_at |-> 0]

\* takes no match for a match of the zero document
GetScenarioZero(st, scenarioID, f) ==
  IF scenarioID = EmptyID THEN [err |-> "ErrInvalidScenario", s |-> <<>>]
  ELSE IF f = "db" THEN [err |-> "failed to get scenario", s |-> <<>>]
  ELSE IF Matching(st, scenarioID) = {}
  THEN [err |-> "nil", s |-> [ZeroScenario EXCEPT !.scenario_id = scenarioID]]
  ELSE [err |-> "nil", s |-> st[Min(Matching(st, scenarioID))]]

\* FindOne decodes the first document that matches
GetScenario(st, scenarioID, f) ==
  IF scenarioID = EmptyID THEN [err |-> "ErrInvalidScenario", s |-> <<>>]
  ELSE IF f = "db" THEN [err |-> "failed to get scenario", s |-> <<>>]
  ELSE IF Matching(st, scenarioID) = {} THEN [err |-> "ErrScenarioNotFound", s |-> <<>>]
  ELSE [err |-> "nil", s |-> st[Min(Matching(st, scenarioID))]]

\* reports success without writing
UpdateScenarioLost(st, s, t, f) == [err |-> "nil", st |-> st]

\* sets s.UpdatedAt to the clock reading t, then UpdateOne: $set of every
\* field of s on the first document with s.scenario_id (none matches:
\* nothing is written and no error)
UpdateScenario(st, s, t, f) ==
  LET s2 == [s EXCEPT !.updated_at = t]
      m == Matching(st, s.scenario_id)
  IN
  IF s.scenario_id = EmptyID THEN [err |-> "ErrInvalidScenario", st |-> st]
  ELSE IF f = "db" THEN [err |-> "failed to update scenario", st |-> st]
  ELSE IF m = {} THEN [err |-> "nil", st |-> st]
  ELSE [err |-> "nil", st |-> [st EXCEPT ![Min(m)] = s2]]

\* ------------------------------------------------------------ the journal
\* What the last call (a manager operation or a worker cycle) was given,
\* what it met and what it returned:
\*   pre     the stored status it loaded ("" when it loaded no document)
\*   cpre    the state of the scenario's container when the call began
\*           ("absent" when the engine does not have it, "" when no document)
\*   calls   the runtime client operations it invoked, in order
\*   wrote   it issued a store write that the store applied
\*   fault   a collaborator failed during the call
\*   failed  the collaborator operation whose error the call met ("": none)
\*   cause   the collaborator's error that the returned error wraps
\*   message the Message of the response
\*   made    the container the engine created for it (NoContainer: none)
\*   stale   the clock has advanced since the call returned
\*   output    the output of find that the call parsed
\*   structure the file nodes it returned
\*   orphaned  an orphan sweep called stop/remove on the container of the call
\*             between the call's runtime step and its store step
\*   retried   the call is a StopScenario right after a StopScenario of the
\*             same scenario that failed in the runtime
\*   busy      the host ports that were taken when findAvailablePort ran
\*   probes    the ports findAvailablePort called net.Listen on, in order
\* and for a worker cycle:
\*   expired   the scenario ids its expired-scenario query returned
\*   touched   the containers its orphan sweep called stop/remove on
\*   erased    the containers the engine had when it began and not when it ended
\*   oerr      the error of its orphan sweep (err: of its expired sweep)
\*   plan      the failure the cycle was given
\*   listed    the containers its orphan sweep listed
\*   refs      the container ids its orphan sweep read from the store
\*   after     the cycle is the first call after a cycle that returned an error
NoJournal ==
  [op |-> "none", user |-> "", type |-> "", id |-> EmptyID, err |-> "nil",
   status |-> "", cstatus |-> "", calls |-> <<>>, pre |-> "", cpre |-> "",
   wrote |-> FALSE, fault |-> FALSE, cid |-> NoContainer, port |-> 0,
   made |-> NoContainer, url |-> <<>>, stale |-> FALSE,
   expired |-> <<>>, touched |-> {}, erased |-> {}, oerr |-> "nil",
   orphaned |-> FALSE, output |-> <<>>, structure |-> <<>>,
   message |-> "", failed |-> "", cause |-> "nil",
   plan |-> <<>>, listed |-> <<>>, refs |-> {}, after |-> FALSE,
   busy |-> {}, probes |-> <<>>, retried |-> FALSE]

Journal(op) == [NoJournal EXCEPT !.op = op]

\* no call is between two of its steps
NoCall == <<>>

\* the number of documents the call in flight may still insert
InFlight == IF inflight # NoCall /\ inflight.call = "StartScenario" THEN 1 ELSE 0

CState(cs, c) == IF c \in DOMAIN cs THEN cs[c].state ELSE "absent"

\* cmd/worker after main has started the loop: the loop waits in its select
\* (loop: "waiting" or "returned"), main waits for a signal (main: "serving",
\* then "draining" during the shutdown wait, then "exited"), ctx is live
WorkerStarted == [loop |-> "waiting", main |-> "serving", ctx |-> "live"]

Init ==
  /\ now = 0
  /\ containers = <<>>
  /\ nextCid = 1
  /\ store = <<>>
  /\ uniqueIndex \in BOOLEAN
  /\ last = NoJournal
  /\ w = WorkerStarted
  /\ inflight = NoCall

\* ------------------------------------------------- Manager.StartScenario
\* <<runtime failure, store failure, failure of the rollback's StopContainer>>.
\* A caller context that is done when the insert runs is <<"none","db","daemon">>:
\* InsertOne(ctx) fails and so does the ContainerInspect(ctx) of StopContainer.
\* A caller context that ends during the insert is <<"none","lost","daemon">>;
\* a reply lost on the way back from the store is <<"none","lost","none">>.
StartPlans ==
  {<<rf, "none", "none">> : rf \in StartContainerFaults}
    \cup {<<"none", "db", kf>> : kf \in StopFaults}
    \cup {<<"none", "lost", kf>> : kf \in StopFaults}

\* checks the scenario type only
validRequestTypeOnly(user, type) == type # ""

\* the request checks that come before any collaborator is called
validRequest(user, type) == user # "" /\ type # ""

StartScenario(user, type, plan) ==
  LET j0 == [Journal("StartScenario") EXCEPT !.op = "StartScenario", !.user = user, !.type = type]
      r == StartScenarioContainer(containers, nextCid, type, plan[1])
      scenarioID == ScenarioIDOf(now)
      s == [scenario_id |-> scenarioID, user_id |-> user, scenario_type |-> type,
            container_id |-> r.id, status |-> "provisioning", terminal_port |-> r.port,
            created_at |-> now, updated_at |-> now]
      ins == StoreScenario(store, s, uniqueIndex, plan[2])
      rb == StopContainer(r.cs, r.id, plan[3])
  IN
  /\ UNCHANGED <<w, uniqueIndex, inflight>>
  /\ UNCHANGED now
  /\ IF ~validRequest(user, type) THEN
       /\ plan = <<"none", "none", "none">>
       /\ last' = [j0 EXCEPT !.err = "InvalidInput"]
       /\ UNCHANGED <<containers, nextCid, store>>
     ELSE
       /\ nextCid <= MaxContainers
       /\ Len(store) + InFlight < MaxScenarios
       /\ nextCid' = IF r.made THEN nextCid + 1 ELSE nextCid
       /\ IF r.err # "nil" THEN
            /\ containers' = r.cs
            /\ store' = store
            /\ last' = [j0 EXCEPT !.err = "failed to provision container",
                                  !.calls = <<"StartScenarioContainer">>,
                                  !.fault = (plan[1] # "none"),
                                  !.made = IF r.made THEN nextCid ELSE NoContainer]
          ELSE IF ins.err # "nil" THEN
            /\ plan[2] = "lost" => ins.st # store
            /\ containers' = rb.cs
            /\ store' = ins.st
            /\ last' = [j0 EXCEPT !.err = "failed to store scenario metadata",
                                  !.calls = <<"StartScenarioContainer", "StopContainer">>,
                                  !.fault = (plan[2] # "none"),
                                  !.made = r.id]
          ELSE
            /\ containers' = r.cs
            /\ store' = ins.st
            /\ last' = [j0 EXCEPT !.id = scenarioID, !.status = "provisioning",
                                  !.calls = <<"StartScenarioContainer">>,
                                  !.wrote = TRUE, !.cid = r.id, !.port = r.port,
                                  !.made = r.id]

\* The same call in two steps, for what runs between its runtime call and its
\* store call.  First step: the request is checked and StartScenarioContainer
\* returns the container.
StartScenarioBegin(user, type) ==
  LET r == StartScenarioContainer(containers, nextCid, type, "none")
  IN
  /\ inflight = NoCall
  /\ validRequest(user, type)
  /\ nextCid <= MaxContainers
  /\ Len(store) < MaxScenarios
  /\ r.err = "nil"
  /\ containers' = r.cs
  /\ nextCid' = nextCid + 1
  /\ inflight' = [call |-> "StartScenario", user |-> user, type |-> type,
                  cid |-> r.id, port |-> r.port, swept |-> FALSE]
  /\ last' = Journal("StartScenarioContainer")
  /\ UNCHANGED <<now, store, uniqueIndex, w>>

\* Second step: the id is drawn from the clock, the document is inserted (on
\* failure the container is stopped) and the call returns.
StartScenarioEnd ==
  LET j0 == [Journal("StartScenario") EXCEPT !.user = inflight.user, !.type = inflight.type,
                                             !.orphaned = inflight.swept]
      scenarioID == ScenarioIDOf(now)
      s == [scenario_id |-> scenarioID, user_id |-> inflight.user,
            scenario_type |-> inflight.type, container_id |-> inflight.cid,
            status |-> "provisioning", terminal_port |-> inflight.port,
            created_at |-> now, updated_at |-> now]
      ins == StoreScenario(store, s, uniqueIndex, "none")
      rb == StopContainer(containers, inflight.cid, "none")
  IN
  /\ inflight # NoCall
  /\ inflight.call = "StartScenario"
  /\ inflight' = NoCall
  /\ UNCHANGED <<now, nextCid, uniqueIndex, w>>
  /\ IF ins.err # "nil" THEN
       /\ containers' = rb.cs
       /\ store' = store
       /\ last' = [j0 EXCEPT !.err = "failed to store scenario metadata",
                             !.calls = <<"StartScenarioContainer", "StopContainer">>,
                             !.made = inflight.cid]
     ELSE
       /\ containers' = containers
       /\ store' = ins.st
       /\ last' = [j0 EXCEPT !.id = scenarioID, !.status = "provisioning",
                             !.calls = <<"StartScenarioContainer">>,
                             !.wrote = TRUE, !.cid = inflight.cid, !.port = inflight.port,
                             !.made = inflight.cid]

\* --------------------------------------------- Manager.GetScenarioStatus
\* promotes only: an exited container does not demote
reconcilePromoteOnly(stored, live) ==
  IF live = "running" /\ stored = "provisioning" THEN "running" ELSE stored

\* the status after reconciling the stored status with the live one
reconcile(stored, live) ==
  IF live = "running" /\ stored = "provisioning" THEN "running"
  ELSE IF live = "exited" \/ live = "stopped" THEN "stopped"
  ELSE stored

\* whether GetScenarioStatus writes the document back for this pair
reconcileWrites(stored, live) ==
  \/ live = "running" /\ stored = "provisioning"
  \/ live = "exited" \/ live = "stopped"

\* the call that fails: the find, the existence check, the status query or
\* the update
StatusFaults == {"none", "get", "exists", "status", "update"}

\* fails the whole call when the runtime does not answer
statusUnavailableFails(sc) ==
  [err |-> "failed to check container", status |-> "", message |-> ""]

\* the response when the existence check or the status query fails: the
\* stored status, no error
statusUnavailable(sc) ==
  [err |-> "nil", status |-> sc.status, message |-> "Container status unavailable"]

FaultIf(b) == IF b THEN "daemon" ELSE "none"
DbFaultIf(b) == IF b THEN "db" ELSE "none"

GetScenarioStatus(scenarioID, f) ==
  LET j0 == [Journal("GetScenarioStatus") EXCEPT !.op = "GetScenarioStatus", !.id = scenarioID]
      g == GetScenario(store, scenarioID, DbFaultIf(f = "get"))
      sc == g.s
      j1 == [j0 EXCEPT !.pre = sc.status, !.cpre = CState(containers, sc.container_id),
                       !.cid = sc.container_id]
      ex == ContainerExists(containers, sc.container_id, FaultIf(f = "exists"))
      cst == GetContainerStatus(containers, sc.container_id, FaultIf(f = "status"))
      gone == UpdateScenario(store, [sc EXCEPT !.status = "stopped", !.updated_at = now],
                             now, DbFaultIf(f = "update"))
      status == reconcile(sc.status, cst.status)
      upd == UpdateScenario(store, [sc EXCEPT !.status = status, !.updated_at = now],
                            now, DbFaultIf(f = "update"))
      una == statusUnavailable(sc)
  IN
  /\ UNCHANGED <<w, uniqueIndex, inflight>>
  /\ UNCHANGED <<now, containers, nextCid>>
  /\ IF scenarioID = EmptyID THEN
       /\ f = "none"
       /\ last' = [j0 EXCEPT !.err = "ErrInvalidScenarioID"]
       /\ store' = store
     ELSE IF g.err # "nil" THEN
       /\ f \in {"none", "get"}
       /\ last' = [j0 EXCEPT !.err = IF g.err = "ErrScenarioNotFound"
                                      THEN "ErrScenarioNotFound"
                                      ELSE "failed to get scenario",
                             !.fault = (f # "none")]
       /\ store' = store
     ELSE IF ex.err # "nil" THEN
       /\ f \in {"none", "exists"}
       /\ last' = [j1 EXCEPT !.err = una.err, !.status = una.status,
                             !.message = una.message, !.calls = <<"ContainerExists">>,
                             !.fault = (f # "none"), !.failed = "ContainerExists"]
       /\ store' = store
     ELSE IF ~ex.exists THEN
       /\ f \in {"none", "update"}
       /\ last' = [j1 EXCEPT !.status = "stopped", !.cstatus = "not_found",
                             !.message = "Container no longer exists",
                             !.calls = <<"ContainerExists">>,
                             !.wrote = (gone.err = "nil"), !.fault = (f # "none"),
                             !.failed = IF gone.err = "nil" THEN "" ELSE "UpdateScenario"]
       /\ store' = gone.st
     ELSE IF cst.err # "nil" THEN
       /\ f \in {"none", "status"}
       /\ last' = [j1 EXCEPT !.err = una.err, !.status = una.status,
                             !.message = una.message, !.cstatus = "unknown",
                             !.calls = <<"ContainerExists", "GetContainerStatus">>,
                             !.fault = (f # "none"), !.failed = "GetContainerStatus"]
       /\ store' = store
     ELSE IF reconcileWrites(sc.status, cst.status) THEN
       /\ f \in {"none", "update"}
       /\ last' = [j1 EXCEPT !.status = status, !.cstatus = cst.status,
                             !.message = "Scenario status retrieved successfully",
                             !.calls = <<"ContainerExists", "GetContainerStatus">>,
                             !.wrote = (upd.err = "nil"), !.fault = (f # "none"),
                             !.failed = IF upd.err = "nil" THEN "" ELSE "UpdateScenario"]
       /\ store' = upd.st
     ELSE
       /\ f = "none"
       /\ last' = [j1 EXCEPT !.status = status, !.cstatus = cst.status,
                             !.message = "Scenario status retrieved successfully",
                             !.calls = <<"ContainerExists", "GetContainerStatus">>]
       /\ store' = store

\* The same call in two steps, for what runs between its reads and its write.
\* First step: the document is read, the runtime answers the existence check
\* and the status query, and the pair calls for a write (a call that writes
\* nothing is GetScenarioStatus above).
GetScenarioStatusObserve(scenarioID) ==
  LET g == GetScenario(store, scenarioID, "none")
      sc == g.s
      ex == ContainerExists(containers, sc.container_id, "none")
      cst == GetContainerStatus(containers, sc.container_id, "none")
  IN
  /\ inflight = NoCall
  /\ g.err = "nil"
  /\ ex.exists => reconcileWrites(sc.status, cst.status)
  /\ inflight' = [call |-> "GetScenarioStatus", id |-> scenarioID, sc |-> sc,
                  cid |-> sc.container_id, swept |-> FALSE,
                  status |-> IF ex.exists THEN reconcile(sc.status, cst.status)
                             ELSE "stopped",
                  cstatus |-> IF ex.exists THEN cst.status ELSE "not_found"]
  /\ last' = Journal("GetContainerStatus")
  /\ UNCHANGED <<now, containers, nextCid, store, uniqueIndex, w>>

\* Second step: the document read in the first step is written back with the
\* reconciled status and the call returns.
GetScenarioStatusWrite ==
  LET sc == inflight.sc
      upd == UpdateScenario(store, [sc EXCEPT !.status = inflight.status, !.updated_at = now],
                            now, "none")
  IN
  /\ inflight # NoCall
  /\ inflight.call = "GetScenarioStatus"
  /\ inflight' = NoCall
  /\ store' = upd.st
  /\ last' = [Journal("GetScenarioStatus") EXCEPT
                !.id = inflight.id, !.cid = inflight.cid, !.pre = sc.status,
                !.status = inflight.status, !.cstatus = inflight.cstatus,
                !.calls = <<"ContainerExists", "GetContainerStatus", "UpdateScenario">>,
                !.wrote = (upd.err = "nil")]
  /\ UNCHANGED <<now, containers, nextCid, uniqueIndex, w>>

\* ------------------------------------------------ Manager.GetTerminalURL
\* also lets a provisioning scenario through
isRunningOrProvisioning(status) == status \in {"running", "provisioning"}

\* the stored status that lets GetTerminalURL go on
isRunning(status) == status = "running"

\* the call that fails: the find, the existence check or the address query
\* (the engine does not answer, or answers without a binding for the port)
TerminalFaults == {"none", "get", "exists", "url", "nomap"}

GetTerminalURL(scenarioID, f) ==
  LET j0 == [Journal("GetTerminalURL") EXCEPT !.op = "GetTerminalURL", !.id = scenarioID]
      g == GetScenario(store, scenarioID, DbFaultIf(f = "get"))
      sc == g.s
      j1 == [j0 EXCEPT !.pre = sc.status, !.cpre = CState(containers, sc.container_id),
                       !.cid = sc.container_id]
      ex == ContainerExists(containers, sc.container_id, FaultIf(f = "exists"))
      u == DockerGetTerminalURL(containers, sc.container_id,
                                IF f = "nomap" THEN "nomap" ELSE FaultIf(f = "url"))
  IN
  /\ UNCHANGED <<w, uniqueIndex, inflight>>
  /\ UNCHANGED <<now, containers, nextCid, store>>
  /\ IF scenarioID = EmptyID THEN
       /\ f = "none"
       /\ last' = [j0 EXCEPT !.err = "ErrInvalidScenarioID"]
     ELSE IF g.err # "nil" THEN
       /\ f \in {"none", "get"}
       /\ last' = [j0 EXCEPT !.err = IF g.err = "ErrScenarioNotFound"
                                      THEN "ErrScenarioNotFound"
                                      ELSE "failed to get scenario",
                             !.fault = (f # "none")]
     ELSE IF ~isRunning(sc.status) THEN
       /\ f = "none"
       /\ last' = [j1 EXCEPT !.err = "ErrScenarioNotRunning"]
     ELSE IF ex.err # "nil" THEN
       /\ f \in {"none", "exists"}
       /\ last' = [j1 EXCEPT !.err = "failed to verify container",
                             !.calls = <<"ContainerExists">>, !.fault = (f # "none")]
     ELSE IF ~ex.exists THEN
       /\ f = "none"
       /\ last' = [j1 EXCEPT !.err = "ErrScenarioNotRunning",
                             !.calls = <<"ContainerExists">>]
     ELSE IF u.err # "nil" THEN
       /\ f \in {"none", "url", "nomap"}
       /\ f = "nomap" => u.err = "port 3000 not mapped"
       /\ last' = [j1 EXCEPT !.err = "failed to get terminal URL",
                             !.cause = u.err,
                             !.calls = <<"ContainerExists", "GetTerminalURL">>,
                             !.fault = (f # "none"), !.failed = "GetTerminalURL"]
     ELSE
       /\ f = "none"
       /\ last' = [j1 EXCEPT !.url = u.url,
                             !.calls = <<"ContainerExists", "GetTerminalURL">>]

\* ------------------------------------- the transports of GetTerminalURL
\* The text of an error is the sequence of its words, so that
\* strings.Contains is "has this contiguous run of words"; the text an
\* engine or the store driver adds is one opaque word.
Contains(str, sub) ==
  \E i \in 0..(Len(str) - Len(sub)) : SubSeq(str, i + 1, i + Len(sub)) = sub

\* Error() of the sentinels and of the runtime client's plain errors
SentinelText(e) ==
  CASE e = "ErrScenarioNotFound" -> <<"scenario", "not", "found">>
    [] e = "ErrScenarioNotRunning" -> <<"scenario", "is", "not", "running">>
    [] e = "ErrInvalidScenarioID" -> <<"invalid", "scenario", "ID">>
    [] e = "ErrContainerNotFound" -> <<"container", "not", "found", ":", "(engine)">>
    [] e = "ErrContainerNotRunning" ->
         <<"container", "is", "not", "running", ":", "container", "status", "is", "(state)">>
    [] e = "ErrDockerDaemonUnavailable" ->
         <<"docker", "daemon", "unavailable", ":", "(engine)">>
    [] e = "port 3000 not mapped" ->
         <<"port", "3000", "not", "mapped", "for", "container", "(id)">>
    [] e = "container ID cannot be empty" -> <<"container", "ID", "cannot", "be", "empty">>
    [] OTHER -> <<"(engine)">>

\* Error() of what Manager.GetTerminalURL returned in the call of journal j
ErrorText(j) ==
  CASE j.err = "nil" -> <<>>
    [] j.err = "ErrInvalidScenarioID" ->
         SentinelText(j.err) \o <<":", "scenario", "ID", "cannot", "be", "empty">>
    [] j.err = "ErrScenarioNotFound" -> SentinelText(j.err) \o <<":", "(id)">>
    [] j.err = "failed to get scenario" ->
         <<"failed", "to", "get", "scenario", ":", "failed", "to", "get", "scenario",
           ":", "(store)">>
    [] j.err = "ErrScenarioNotRunning" /\ j.calls = <<>> ->
         SentinelText(j.err) \o <<":", "scenario", "status", "is", j.pre>>
    [] j.err = "ErrScenarioNotRunning" /\ j.calls # <<>> ->
         SentinelText(j.err) \o <<":", "container", "(id)", "not", "found">>
    [] j.err = "failed to verify container" ->
         <<"failed", "to", "verify", "container", ":">>
           \o SentinelText("ErrDockerDaemonUnavailable")
    [] j.err = "failed to get terminal URL" ->
         <<"failed", "to", "get", "terminal", "URL", ":">> \o SentinelText(j.cause)
    [] OTHER -> <<"(other)">>

\* errors.Is on what the call of journal j returned: the manager's sentinel,
\* or the runtime client's error that "failed to get terminal URL" wraps
ErrorIs(j, e) == j.err = e \/ (j.err = "failed to get terminal URL" /\ j.cause = e)

\* the HTTP status of Handler.GetTerminalURLREST for the call of journal j
GetTerminalURLREST(j) ==
  IF j.id = EmptyID THEN 400
  ELSE IF j.err = "nil" THEN 200
  ELSE IF ErrorIs(j, "ErrScenarioNotFound") THEN 404
  ELSE IF ErrorIs(j, "ErrScenarioNotRunning") THEN 409
  ELSE IF ErrorIs(j, "ErrContainerNotFound") THEN 404
  ELSE IF ErrorIs(j, "ErrContainerNotRunning") THEN 409
  ELSE IF ErrorIs(j, "ErrInvalidScenarioID") THEN 400
  ELSE 500

\* the status code of GRPCServer.GetTerminalURL for the call of journal j
GRPCGetTerminalURL(j) ==
  IF j.err = "nil" THEN "OK"
  ELSE IF Contains(ErrorText(j), <<"scenario", "not", "found">>) THEN "NOT_FOUND"
  ELSE IF Contains(ErrorText(j), <<"container", "not", "running">>)
  THEN "FAILED_PRECONDITION"
  ELSE "INTERNAL"

\* -------------------------------------------------- Manager.StopScenario
\* gives up on every error of StopContainer
anyStopErrorIsFatal(err) == err # "nil"

\* an error of StopContainer that makes StopScenario give up: any but
\* docker.ErrContainerNotFound
stopErrorIsFatal(err) == err # "nil" /\ err # "ErrContainerNotFound"

\* marks the document as cleaned up
statusAfterStopCleaned == "cleaned_up"

\* the status StopScenario sets on the document before it writes it back
statusAfterStop == "stopped"

\* the call that fails: the find, the runtime's stop (engine unreachable, or
\* its final remove) or the update
StopScenarioFaults == {"none", "get", "daemon", "remove", "update"}

StopScenario(scenarioID, f) ==
  LET j0 == [Journal("StopScenario") EXCEPT
               !.op = "StopScenario", !.id = scenarioID,
               !.retried = /\ last.op = "StopScenario" /\ last.id = scenarioID
                           /\ last.err = "failed to stop container"]
      g == GetScenario(store, scenarioID, DbFaultIf(f = "get"))
      sc == g.s
      j1 == [j0 EXCEPT !.pre = sc.status, !.cpre = CState(containers, sc.container_id),
                       !.cid = sc.container_id, !.calls = <<"StopContainer">>]
      st == StopContainer(containers, sc.container_id,
                          IF f \in {"daemon", "remove"} THEN f ELSE "none")
      upd == UpdateScenario(store, [sc EXCEPT !.status = statusAfterStop, !.updated_at = now],
                            now, DbFaultIf(f = "update"))
  IN
  /\ UNCHANGED <<w, uniqueIndex, inflight>>
  /\ UNCHANGED <<now, nextCid>>
  /\ IF scenarioID = EmptyID THEN
       /\ f = "none"
       /\ last' = [j0 EXCEPT !.err = "ErrInvalidScenarioID"]
       /\ UNCHANGED <<containers, store>>
     ELSE IF g.err # "nil" THEN
       /\ f \in {"none", "get"}
       /\ last' = [j0 EXCEPT !.err = IF g.err = "ErrScenarioNotFound"
                                      THEN "ErrScenarioNotFound"
                                      ELSE "failed to get scenario",
                             !.fault = (f # "none")]
       /\ UNCHANGED <<containers, store>>
     ELSE IF stopErrorIsFatal(st.err) THEN
       /\ f \in {"none", "daemon", "remove"}
       /\ last' = [j1 EXCEPT !.err = "failed to stop container", !.fault = (f # "none")]
       /\ containers' = st.cs
       /\ store' = store
     ELSE IF upd.err # "nil" THEN
       /\ f \in {"none", "update"}
       /\ last' = [j1 EXCEPT !.err = "failed to update scenario status",
                             !.fault = (f # "none")]
       /\ containers' = st.cs
       /\ store' = store
     ELSE
       /\ f = "none"
       /\ last' = [j1 EXCEPT !.wrote = TRUE]
       /\ containers' = st.cs
       /\ store' = upd.st

\* The same call one engine request at a time, for what runs between the
\* requests of RealClient.StopContainer.  First step: the document is read and
\* ContainerInspect answers for a container that exists (a call that finds no
\* container makes no further engine request: StopScenario above).
StopScenarioInspect(scenarioID) ==
  LET g == GetScenario(store, scenarioID, "none")
      sc == g.s
  IN
  /\ inflight = NoCall
  /\ g.err = "nil"
  /\ sc.container_id \in DOMAIN containers
  /\ inflight' = [call |-> "StopScenario", id |-> scenarioID, sc |-> sc,
                  cid |-> sc.container_id, swept |-> FALSE,
                  pc |-> IF containers[sc.container_id].state \in {"exited", "stopped"}
                         THEN "remove" ELSE "stop",
                  calls |-> <<"ContainerInspect">>]
  /\ last' = Journal("ContainerInspect")
  /\ UNCHANGED <<now, containers, nextCid, store, uniqueIndex, w>>

\* Second step, for a container the inspect saw running: ContainerStop.  The
\* engine's error for a container that is gone is not ErrContainerNotFound,
\* so StopScenario gives up.
StopScenarioStop ==
  LET c == inflight.cid
      calls == Append(inflight.calls, "ContainerStop")
  IN
  /\ inflight # NoCall
  /\ inflight.call = "StopScenario"
  /\ inflight.pc = "stop"
  /\ UNCHANGED <<now, nextCid, store, uniqueIndex, w>>
  /\ IF c \notin DOMAIN containers THEN
       /\ inflight' = NoCall
       /\ containers' = containers
       /\ last' = [Journal("StopScenario") EXCEPT
                     !.id = inflight.id, !.cid = c, !.pre = inflight.sc.status,
                     !.cpre = "absent", !.calls = calls,
                     !.err = "failed to stop container"]
     ELSE
       /\ inflight' = [inflight EXCEPT !.pc = "remove", !.calls = calls]
       /\ containers' = [containers EXCEPT ![c].state = "exited"]
       /\ last' = Journal("ContainerStop")

\* Last step: ContainerRemove, then the document read in the first step is
\* written back as stopped and the call returns.
StopScenarioRemove ==
  LET c == inflight.cid
      sc == inflight.sc
      calls == Append(inflight.calls, "ContainerRemove")
      j1 == [Journal("StopScenario") EXCEPT
               !.id = inflight.id, !.cid = c, !.pre = sc.status,
               !.cpre = CState(containers, c), !.calls = calls]
      upd == UpdateScenario(store, [sc EXCEPT !.status = statusAfterStop, !.updated_at = now],
                            now, "none")
  IN
  /\ inflight # NoCall
  /\ inflight.call = "StopScenario"
  /\ inflight.pc = "remove"
  /\ inflight' = NoCall
  /\ UNCHANGED <<now, nextCid, uniqueIndex, w>>
  /\ IF c \notin DOMAIN containers THEN
       /\ containers' = containers
       /\ store' = store
       /\ last' = [j1 EXCEPT !.err = "failed to stop container"]
     ELSE IF upd.err # "nil" THEN
       /\ containers' = Remove(containers, c)
       /\ store' = store
       /\ last' = [j1 EXCEPT !.err = "failed to update scenario status"]
     ELSE
       /\ containers' = Remove(containers, c)
       /\ store' = upd.st
       /\ last' = [j1 EXCEPT !.wrote = TRUE]

\* ------------------------------------------ Manager.GetDirectoryStructure
\* A string is the sequence of its pieces: "/home/devlab/b" is
\* <<"/", "home", "/", "devlab", "/", "b">> and "/home/devlab2" is
\* <<"/", "home", "/", "devlab", "2">>, so that strings.HasPrefix is the
\* prefix order of sequences.
HasPrefix(str, prefix) ==
  /\ Len(prefix) <= Len(str)
  /\ SubSeq(str, 1, Len(prefix)) = prefix

Root == <<"/", "home", "/", "devlab">>
Dot == <<".">>

\* one of the cachePatterns, which are all of the form /home/devlab/.name
CachePatterns == {Root \o <<"/", ".cache">>, Root \o <<"/", ".config">>}

shouldSkipPath(path) == \E pattern \in CachePatterns : HasPrefix(path, pattern)

getNodeType(findType) ==
  IF findType = "d" THEN "folder" ELSE "file"

\* the positions of the separators of a path
Slashes(path) == {k \in 1..Len(path) : path[k] = "/"}

Max(S) == CHOOSE x \in S : \A y \in S : x >= y

\* filepath.Dir of a cleaned path
Dir(path) ==
  IF Slashes(path) = {} THEN Dot
  ELSE IF Max(Slashes(path)) = 1 THEN <<"/">>
  ELSE SubSeq(path, 1, Max(Slashes(path)) - 1)

getParentPath(path) ==
  IF Dir(path) = Dot THEN Root ELSE Dir(path)

\* the lines the first pass makes a node of: a line is the sequence of its
\* fields (strings.Fields), <<path, type>> when it has two
keptLine(line) ==
  /\ Len(line) = 2
  /\ HasPrefix(line[1], Root)
  /\ ~shouldSkipPath(line[1])

\* First pass: one node per kept line, stored under its path in pathMap and
\* appended BY VALUE to structure (Children empty at that moment).  Second
\* pass: every key of pathMap but the root is appended to the Children of
\* the pathMap node of its parent; the values already copied to structure do
\* not share that field.  Children is the set of the appended paths (their
\* order is the iteration order of the map, each key once).
parseDirectoryStructure(output) ==
  LET lines == SelectSeq(output, keptLine)
      node(line) == [path |-> line[1], type |-> getNodeType(line[2]),
                     isRoot |-> line[1] = Root, children |-> {}]
      structure == [k \in 1..Len(lines) |-> node(lines[k])]
      keys == {lines[k][1] : k \in 1..Len(lines)}
      pathMap == [path \in keys |->
                    [node(lines[Max({k \in 1..Len(lines) : lines[k][1] = path})])
                       EXCEPT !.children = {q \in keys \ {Root} : getParentPath(q) = path}]]
  IN [structure |-> structure, pathMap |-> pathMap]

ExecFaults == {"none", "daemon", "exec"}

\* the output is what find prints in the container
ExecuteCommand(cs, c, f, output) ==
  IF c = NoContainer THEN [err |-> "container ID cannot be empty", output |-> <<>>]
  ELSE IF f = "daemon" THEN [err |-> "ErrDockerDaemonUnavailable", output |-> <<>>]
  ELSE IF c \notin DOMAIN cs THEN [err |-> "ErrContainerNotFound", output |-> <<>>]
  ELSE IF cs[c].state # "running" THEN [err |-> "ErrContainerNotRunning", output |-> <<>>]
  ELSE IF f = "exec" THEN [err |-> "command failed", output |-> output]
  ELSE [err |-> "nil", output |-> output]

\* the call that fails: the find, the existence check or the exec
DirectoryFaults == {"none", "get", "exists", "exec"}

GetDirectoryStructure(scenarioID, f, output) ==
  LET j0 == [Journal("GetDirectoryStructure") EXCEPT !.id = scenarioID]
      g == GetScenario(store, scenarioID, DbFaultIf(f = "get"))
      sc == g.s
      j1 == [j0 EXCEPT !.pre = sc.status, !.cpre = CState(containers, sc.container_id),
                       !.cid = sc.container_id]
      ex == ContainerExists(containers, sc.container_id, FaultIf(f = "exists"))
      x == ExecuteCommand(containers, sc.container_id,
                          IF f = "exec" THEN "exec" ELSE "none", output)
  IN
  /\ UNCHANGED <<w, uniqueIndex, inflight>>
  /\ UNCHANGED <<now, containers, nextCid, store>>
  /\ IF scenarioID = EmptyID THEN
       /\ f = "none"
       /\ last' = [j0 EXCEPT !.err = "ErrInvalidScenarioID"]
     ELSE IF g.err # "nil" THEN
       /\ f \in {"none", "get"}
       /\ last' = [j0 EXCEPT !.err = IF g.err = "ErrScenarioNotFound"
                                      THEN "ErrScenarioNotFound"
                                      ELSE "failed to get scenario",
                             !.fault = (f # "none")]
     ELSE IF ex.err # "nil" THEN
       /\ f \in {"none", "exists"}
       /\ last' = [j1 EXCEPT !.err = "failed to check container existence",
                             !.calls = <<"ContainerExists">>, !.fault = (f # "none")]
     ELSE IF ~ex.exists THEN
       /\ f = "none"
       /\ last' = [j1 EXCEPT !.err = "ErrScenarioNotRunning",
                             !.calls = <<"ContainerExists">>]
     ELSE IF x.err # "nil" THEN
       /\ f \in {"none", "exec"}
       /\ last' = [j1 EXCEPT !.err = "failed to get directory structure",
                             !.calls = <<"ContainerExists", "ExecuteCommand">>,
                             !.fault = (f # "none")]
     ELSE
       /\ f = "none"
       /\ last' = [j1 EXCEPT !.output = x.output,
                             !.structure = parseDirectoryStructure(x.output).structure,
                             !.calls = <<"ContainerExists", "ExecuteCommand">>]

\* lines that find may print: the root, entries below it, a cache directory,
\* a sibling of the root whose name starts like it, an entry whose directory
\* is not listed, and an entry whose name holds a space (three fields)
FindLines ==
  { <<Root, "d">>,
    <<Root \o <<"/", "a">>, "f">>,
    <<Root \o <<"/", "b">>, "d">>,
    <<Root \o <<"/", "b", "/", "c">>, "f">>,
    <<Root \o <<"/", ".cache">>, "d">>,
    <<Root \o <<"2">>, "d">>,
    <<Root \o <<"/", "x", "/", "y">>, "f">>,
    <<Root \o <<"/", "my">>, <<"file">>, "f">> }

Outputs == UNION {[1..n -> FindLines] : n \in 0..MaxLines}

\* /home/devlab with a, b and b/c
SampleOutput ==
  << <<Root, "d">>, <<Root \o <<"/", "a">>, "f">>, <<Root \o <<"/", "b">>, "d">>,
     <<Root \o <<"/", "b", "/", "c">>, "f">> >>

\* the tree builder alone, on the output of find that the journal holds
ParseListing ==
  /\ last.op = "none"
  /\ last' = [Journal("parseDirectoryStructure") EXCEPT
                  !.output = last.output,
                  !.structure = parseDirectoryStructure(last.output).structure]
  /\ UNCHANGED <<now, containers, nextCid, store, uniqueIndex, w, inflight>>

\* ------------------------------------------------------- CleanupManager
\* the filter of findExpiredScenarios on one document
expiredFilter(d, cutoffTime) ==
  /\ d.created_at < cutoffTime
  /\ d.status \in {"running", "provisioning"}

findExpiredScenarios(st, t, maxAge, f) ==
  LET cutoffTime == t - maxAge
      Test(d) == expiredFilter(d, cutoffTime)
  IN IF f = "db" THEN [err |-> "failed to query expired scenarios", list |-> <<>>]
     ELSE [err |-> "nil", list |-> SelectSeq(st, Test)]

\* the failure one sweep item meets: in the existence check, the status
\* query, StopContainer (engine unreachable / its final remove),
\* RemoveContainer (likewise) or the update
ItemFaults == {"none", "exists", "status", "stop", "stoprm", "remove", "removerm", "update"}

StopF(f) == IF f = "stop" THEN "daemon" ELSE IF f = "stoprm" THEN "remove" ELSE "none"
RemoveF(f) == IF f = "remove" THEN "daemon" ELSE IF f = "removerm" THEN "remove" ELSE "none"

cleanupScenario(st, cs, s, t, f) ==
  LET cid == s.container_id
      ex == ContainerExists(cs, cid, FaultIf(f = "exists"))
      inside == cid # NoContainer /\ ex.err = "nil" /\ ex.exists
      stt == GetContainerStatus(cs, cid, FaultIf(f = "status"))
      doStop == inside /\ stt.err = "nil" /\ stt.status = "running"
      stp == StopContainer(cs, cid, StopF(f))
      csA == IF doStop THEN stp.cs ELSE cs
      rm == RemoveContainer(csA, cid, RemoveF(f))
      csB == IF inside THEN rm.cs ELSE cs
      upd == UpdateScenario(st, [s EXCEPT !.status = "cleaned_up", !.updated_at = t], t,
                            DbFaultIf(f = "update"))
  IN [err |-> IF upd.err # "nil" THEN "failed to update scenario status" ELSE "nil",
      st |-> upd.st,
      cs |-> csB,
      hit |-> \/ f = "exists" /\ cid # NoContainer
              \/ f = "status" /\ inside
              \/ f \in {"stop", "stoprm"} /\ doStop
              \/ f = "remove" /\ inside
              \/ f = "removerm" /\ inside /\ cid \in DOMAIN csA
              \/ f = "update"]

\* leaves the loop at the first item that fails
nextItemOrBreak(k, n, err) == IF err # "nil" THEN n + 1 ELSE k + 1

\* the item a sweep loop goes on with after item k of n returned err: the
\* error is logged and the loop continues
nextItem(k, n, err) == k + 1

\* the loop of CleanupExpiredScenarios from item k on; item number at meets
\* the failure f
RECURSIVE cleanupLoop(_, _, _, _, _, _, _, _)
cleanupLoop(list, k, st, cs, t, f, at, hit) ==
  IF k > Len(list) THEN [st |-> st, cs |-> cs, hit |-> hit]
  ELSE LET r == cleanupScenario(st, cs, list[k], t, IF k = at THEN f ELSE "none")
       IN cleanupLoop(list, nextItem(k, Len(list), r.err), r.st, r.cs, t, f, at,
                      hit \/ (k = at /\ r.hit))

\* plan = <<kind of failure, number of the item that meets it>>; the kinds of
\* this pass are "find" and "e_" \o an item failure
ExpiredItemFault(kind) ==
  CASE kind = "e_exists" -> "exists" [] kind = "e_status" -> "status"
    [] kind = "e_stop" -> "stop" [] kind = "e_stoprm" -> "stoprm"
    [] kind = "e_remove" -> "remove" [] kind = "e_removerm" -> "removerm"
    [] kind = "e_update" -> "update" [] OTHER -> "none"

CleanupExpiredScenarios(st, cs, t, plan) ==
  LET found == findExpiredScenarios(st, t, MaxScenarioAge, DbFaultIf(plan[1] = "find"))
      r == cleanupLoop(found.list, 1, st, cs, t, ExpiredItemFault(plan[1]), plan[2], FALSE)
  IN IF found.err # "nil"
     THEN [err |-> "failed to find expired scenarios", st |-> st, cs |-> cs,
           expired |-> <<>>, hit |-> TRUE]
     ELSE [err |-> "nil", st |-> r.st, cs |-> r.cs, expired |-> found.list, hit |-> r.hit]

\* kind = "refs": the query fails; kind = "decode": document number at of the
\* cursor fails to decode and is skipped
getScenarioContainerIDs(st, kind, at) ==
  LET Test(d) == d.container_id # NoContainer
      docs == SelectSeq(st, Test)
      read == {k \in 1..Len(docs) : ~(kind = "decode" /\ k = at)}
  IN IF kind = "refs" THEN [err |-> "failed to query scenario container IDs", ids |-> {}]
     ELSE [err |-> "nil", ids |-> {docs[k].container_id : k \in read}]

\* takes every container for an orphan
isNeverScenarioContainer(containerID, scenarioContainers) == FALSE

isScenarioContainer(containerID, scenarioContainers) == containerID \in scenarioContainers

OrphanItemFault(kind) ==
  CASE kind = "o_stop" -> "stop" [] kind = "o_stoprm" -> "stoprm"
    [] kind = "o_remove" -> "remove" [] kind = "o_removerm" -> "removerm"
    [] OTHER -> "none"

\* the loop of CleanupOrphanedContainers from container k of the list on
RECURSIVE orphanLoop(_, _, _, _, _, _, _, _)
orphanLoop(list, k, refs, cs, f, at, hit, touched) ==
  IF k > Len(list) THEN [cs |-> cs, hit |-> hit, touched |-> touched]
  ELSE IF isScenarioContainer(list[k], refs)
  THEN orphanLoop(list, k + 1, refs, cs, f, at, hit, touched)
  ELSE LET g == IF k = at THEN f ELSE "none"
           stp == StopContainer(cs, list[k], StopF(g))
           rm == RemoveContainer(stp.cs, list[k], RemoveF(g))
           csA == IF stp.err # "nil" THEN stp.cs ELSE rm.cs
           h == \/ g \in {"stop", "stoprm"}
                \/ g = "remove" /\ stp.err = "nil"
                \/ g = "removerm" /\ stp.err = "nil" /\ list[k] \in DOMAIN stp.cs
           err == IF stp.err # "nil" THEN stp.err ELSE rm.err
       IN orphanLoop(list, nextItem(k, Len(list), err), refs, csA, f, at, hit \/ h,
                     touched \cup {list[k]})

CleanupOrphanedContainers(st, cs, plan) ==
  LET l == ListContainers(cs, FaultIf(plan[1] = "list"))
      ids == getScenarioContainerIDs(st, plan[1], plan[2])
      r == orphanLoop(l.list, 1, ids.ids, cs, OrphanItemFault(plan[1]), plan[2], FALSE, {})
      none == [cs |-> cs, listed |-> l.list, refs |-> {}, touched |-> {}]
  IN IF l.err # "nil"
     THEN [err |-> "failed to list containers", hit |-> TRUE] @@ none
     ELSE IF ids.err # "nil"
     THEN [err |-> "failed to get scenario container IDs", hit |-> TRUE] @@ none
     ELSE [err |-> "nil", cs |-> r.cs, listed |-> l.list, refs |-> ids.ids,
           touched |-> r.touched,
           hit |-> r.hit \/ (plan[1] = "decode" /\ plan[2] <= Len(st))]

CycleFaults ==
  {<<k, 1>> : k \in {"none", "find", "list", "refs"}}
    \cup {<<k, at>> : k \in {"e_exists", "e_status", "e_stop", "e_stoprm", "e_remove",
                              "e_removerm", "e_update", "decode", "o_stop", "o_stoprm",
                              "o_remove", "o_removerm"},
                      at \in 1..MaxContainers}

\* ends the loop when a pass returned an error
loopEndsOnError(eerr, oerr) ==
  IF eerr # "nil" \/ oerr # "nil" THEN "returned" ELSE "waiting"

\* where the loop is after a cycle whose passes returned eerr and oerr: both
\* errors are logged and the loop is back in its select
loopAfterCycle(eerr, oerr) == "waiting"

\* one tick of the ticker in RunPeriodicCleanup: both passes, in order
RunPeriodicCleanup(plan) ==
  \E e \in {CleanupExpiredScenarios(store, containers, now, plan)} :
  \E o \in {CleanupOrphanedContainers(e.st, e.cs, plan)} :
  /\ w.loop = "waiting" /\ w.main # "exited"
  /\ plan[1] # "none" => (e.hit \/ o.hit)
  /\ w' = [w EXCEPT !.loop = loopAfterCycle(e.err, o.err)]
  /\ store' = e.st
  /\ containers' = o.cs
  /\ last' = [Journal("RunPeriodicCleanup") EXCEPT
                  !.err = e.err, !.oerr = o.err, !.fault = (e.hit \/ o.hit),
                  !.expired = [k \in 1..Len(e.expired) |-> e.expired[k].scenario_id],
                  !.touched = o.touched,
                  !.plan = plan, !.listed = o.listed, !.refs = o.refs,
                  !.after = /\ last.op = "RunPeriodicCleanup"
                            /\ (last.err # "nil" \/ last.oerr # "nil"),
                  !.erased = (DOMAIN containers) \ (DOMAIN o.cs)]
  /\ inflight' = IF inflight # NoCall /\ inflight.cid \in o.touched
                 THEN [inflight EXCEPT !.swept = TRUE]
                 ELSE inflight
  /\ UNCHANGED <<now, nextCid, uniqueIndex>>

\* the case <-ctx.Done() of the loop's select: the loop returns
LoopReturns ==
  /\ w.loop = "waiting"
  /\ w.ctx = "cancelled"
  /\ w' = [w EXCEPT !.loop = "returned"]
  /\ last' = Journal("worker")
  /\ UNCHANGED <<now, containers, nextCid, store, uniqueIndex, inflight>>

\* --------------------------------------------------------- cmd/worker main
\* SIGINT or SIGTERM arrives: main leaves <-sigChan and starts its shutdown
\* wait of 30 seconds
Signal ==
  /\ w.main = "serving"
  /\ w' = [w EXCEPT !.main = "draining"]
  /\ last' = Journal("worker")
  /\ UNCHANGED <<now, containers, nextCid, store, uniqueIndex, inflight>>

\* the shutdown wait is over: main returns, its deferred cancel() runs and
\* the process exits; the loop may still see ctx.Done() before it does
MainReturns ==
  /\ w.main = "draining"
  /\ w' = [w EXCEPT !.main = "exited", !.ctx = "cancelled"]
  /\ last' = Journal("worker")
  /\ UNCHANGED <<now, containers, nextCid, store, uniqueIndex, inflight>>

\* ------------------------------------------------------- the environment
\* the process of a running container ends
ContainerExits(c) ==
  /\ c \in DOMAIN containers
  /\ containers[c].state = "running"
  /\ containers' = [containers EXCEPT ![c].state = "exited"]
  /\ last' = Journal("env")
  /\ UNCHANGED <<now, nextCid, store, uniqueIndex, w, inflight>>

\* a container is removed from outside (docker rm -f)
ExternalRemove(c) ==
  /\ c \in DOMAIN containers
  /\ containers' = Remove(containers, c)
  /\ last' = Journal("env")
  /\ UNCHANGED <<now, nextCid, store, uniqueIndex, w, inflight>>

\* a container that no scenario owns is started on the host
ExternalCreate ==
  /\ nextCid <= MaxContainers
  /\ containers' = Put(containers, nextCid, [state |-> "running", port |-> 0])
  /\ nextCid' = nextCid + 1
  /\ last' = Journal("env")
  /\ UNCHANGED <<now, store, uniqueIndex, w, inflight>>

\* ---------------------------------------------------------------- clock
Tick ==
  /\ now < MaxTime
  /\ now' = now + 1
  /\ last' = [last EXCEPT !.stale = TRUE]
  /\ UNCHANGED <<containers, nextCid, store, uniqueIndex, w, inflight>>

\* the ids of the stored documents
StoredIDs == {store[k].scenario_id : k \in 1..Len(store)}

\* no collaborator fails
NoStartFault == <<"none", "none", "none">>
NoCycleFault == <<"none", 1>>

\* the system while the runtime and the store answer every request and the
\* callers pass well-formed requests for scenarios that exist
ScenarioNext ==
  \/ StartScenario("u1", "go", NoStartFault)
  \/ \E scenarioID \in StoredIDs : GetScenarioStatus(scenarioID, "none")
  \/ \E scenarioID \in StoredIDs : GetTerminalURL(scenarioID, "none")
  \/ \E scenarioID \in StoredIDs : StopScenario(scenarioID, "none")
  \/ \E scenarioID \in StoredIDs : GetDirectoryStructure(scenarioID, "none", SampleOutput)
  \/ RunPeriodicCleanup(NoCycleFault)
  \/ \E c \in 1..MaxContainers : ContainerExits(c)
  \/ \E c \in 1..MaxContainers : ExternalRemove(c)
  \/ Tick

\* ... and the host also runs containers that no scenario owns
Next ==
  \/ ScenarioNext
  \/ ExternalCreate

Spec == Init /\ [][Next]_vars

\* the same system when a StartScenario call may meet a failing collaborator
StartFaultsNext ==
  \/ Next
  \/ \E plan \in StartPlans \ {NoStartFault} : StartScenario("u1", "go", plan)

SpecStartFaults == Init /\ [][StartFaultsNext]_vars

\* the same system when a StartScenario call takes its two steps apart and
\* other calls and worker cycles run between them
ConcurrentNext ==
  \/ Next
  \/ StartScenarioBegin("u1", "go")
  \/ StartScenarioEnd

SpecConcurrent == Init /\ [][ConcurrentNext]_vars

\* the system when a StopScenario call makes its engine requests one at a
\* time while another StopScenario call or a worker cycle runs between them
StopRaceNext ==
  \/ StartScenario("u1", "go", NoStartFault)
  \/ \E scenarioID \in StoredIDs : StopScenario(scenarioID, "none")
  \/ \E scenarioID \in StoredIDs : StopScenarioInspect(scenarioID)
  \/ StopScenarioStop
  \/ StopScenarioRemove
  \/ RunPeriodicCleanup(NoCycleFault)
  \/ \E c \in 1..MaxContainers : ContainerExits(c)
  \/ Tick

SpecStopRace == Init /\ [][StopRaceNext]_vars

\* the system while every call succeeds, the clock advances and the worker's
\* ticker keeps firing: a cycle that is due is eventually run
LiveNext ==
  \/ StartScenario("u1", "go", NoStartFault)
  \/ \E scenarioID \in StoredIDs : GetScenarioStatus(scenarioID, "none")
  \/ \E scenarioID \in StoredIDs : StopScenario(scenarioID, "none")
  \/ RunPeriodicCleanup(NoCycleFault)
  \/ \E c \in 1..MaxContainers : ContainerExits(c)
  \/ Tick

SpecLive ==
  /\ Init
  /\ [][LiveNext]_vars
  /\ WF_vars(RunPeriodicCleanup(NoCycleFault))
  /\ WF_vars(Tick)

\* the system when a GetScenarioStatus call takes its reads and its write
\* apart while StopScenario calls run between them
StatusRaceNext ==
  \/ StartScenario("u1", "go", NoStartFault)
  \/ \E scenarioID \in StoredIDs : GetScenarioStatusObserve(scenarioID)
  \/ GetScenarioStatusWrite
  \/ \E scenarioID \in StoredIDs : StopScenario(scenarioID, "none")
  \/ \E c \in 1..MaxContainers : ContainerExits(c)
  \/ Tick

SpecStatusRace == Init /\ [][StatusRaceNext]_vars

\* the system when the runtime's existence check, its status query, the find
\* or the update of a GetScenarioStatus call may fail
StatusFaultsNext ==
  \/ ScenarioNext
  \/ \E scenarioID \in StoredIDs, f \in StatusFaults \ {"none"} :
        GetScenarioStatus(scenarioID, f)

SpecStatusFaults == Init /\ [][StatusFaultsNext]_vars

\* the system when the find, the runtime's stop or the update of a
\* StopScenario call may fail
StopFaultsNext ==
  \/ ScenarioNext
  \/ \E scenarioID \in StoredIDs, f \in StopScenarioFaults \ {"none"} :
       StopScenario(scenarioID, f)

SpecStopFaults == Init /\ [][StopFaultsNext]_vars

\* the system when the find, the existence check or the address query of a
\* GetTerminalURL call may fail
TerminalFaultsNext ==
  \/ ScenarioNext
  \/ \E scenarioID \in StoredIDs, f \in TerminalFaults \ {"none"} :
        GetTerminalURL(scenarioID, f)

SpecTerminalFaults == Init /\ [][TerminalFaultsNext]_vars

\* the system when a cleanup cycle may meet a failing collaborator
\* beside callers that start and stop scenarios
CycleFaultsNext ==
  \/ StartScenario("u1", "go", NoStartFault)
  \/ \E scenarioID \in StoredIDs : StopScenario(scenarioID, "none")
  \/ \E plan \in CycleFaults : RunPeriodicCleanup(plan)
  \/ \E c \in 1..MaxContainers : ContainerExits(c)
  \/ \E c \in 1..MaxContainers : ExternalRemove(c)
  \/ ExternalCreate
  \/ Tick

SpecCycleFaults == Init /\ [][CycleFaultsNext]_vars

\* the worker process from its start to its exit, beside callers that start
\* scenarios; a cycle may meet a failing query, listing or item
WorkerPlans ==
  {plan \in CycleFaults :
     plan[1] \in {"none", "find", "list", "refs", "e_update", "o_stop", "o_remove"}}

WorkerNext ==
  \/ StartScenario("u1", "go", NoStartFault)
  \/ \E plan \in WorkerPlans : RunPeriodicCleanup(plan)
  \/ LoopReturns
  \/ Signal
  \/ MainReturns
  \/ ExternalCreate
  \/ Tick

SpecWorker == Init /\ [][WorkerNext]_vars

\* the system when callers also pass requests with empty fields and ids of
\* scenarios that do not exist; the runtime holds scenario containers only
BadIDs == {EmptyID, MissingID}

InputsNext ==
  \/ \E req \in UserIDs \X ScenarioTypes : StartScenario(req[1], req[2], NoStartFault)
  \/ \E scenarioID \in StoredIDs \cup BadIDs : GetScenarioStatus(scenarioID, "none")
  \/ \E scenarioID \in StoredIDs \cup BadIDs : GetTerminalURL(scenarioID, "none")
  \/ \E scenarioID \in StoredIDs \cup BadIDs : StopScenario(scenarioID, "none")
  \/ \E scenarioID \in StoredIDs \cup BadIDs :
        GetDirectoryStructure(scenarioID, "none", SampleOutput)
  \/ RunPeriodicCleanup(NoCycleFault)
  \/ \E c \in 1..MaxContainers : ContainerExits(c)
  \/ \E c \in 1..MaxContainers : ExternalRemove(c)
  \/ Tick

SpecInputs == Init /\ [][InputsNext]_vars

\* the tree builder applied to every output of find of at most MaxLines lines
InitTree ==
  /\ now = 0
  /\ containers = <<>>
  /\ nextCid = 1
  /\ store = <<>>
  /\ uniqueIndex = TRUE
  /\ \E output \in Outputs : last = [NoJournal EXCEPT !.output = output]
  /\ w = WorkerStarted
  /\ inflight = NoCall

TreeNext == ParseListing

\* the runtime client called directly, as its tests do: a caller starts
\* containers and stops them by id, and container processes end
RealClientStartScenarioContainer ==
  LET r == StartScenarioContainer(containers, nextCid, "go", "none")
  IN
  /\ nextCid <= MaxContainers
  /\ containers' = r.cs
  /\ nextCid' = IF r.made THEN nextCid + 1 ELSE nextCid
  /\ last' = [Journal("RealClient.StartScenarioContainer") EXCEPT
                 !.err = r.err, !.cid = r.id, !.port = r.port,
                 !.made = IF r.made THEN nextCid ELSE NoContainer]
  /\ UNCHANGED <<now, store, uniqueIndex, w, inflight>>

RealClientStopContainer(c) ==
  LET r == StopContainer(containers, c, "none")
  IN
  /\ containers' = r.cs
  /\ last' = [Journal("RealClient.StopContainer") EXCEPT
                 !.err = r.err, !.cid = c, !.cpre = CState(containers, c)]
  /\ UNCHANGED <<now, nextCid, store, uniqueIndex, w, inflight>>

ClientNext ==
  \/ RealClientStartScenarioContainer
  \/ \E c \in 1..MaxContainers : RealClientStopContainer(c)
  \/ \E c \in 1..MaxContainers : ContainerExits(c)
  \/ Tick

SpecClient == Init /\ [][ClientNext]_vars

\* findAvailablePort alone, on every set of taken host ports around its range
HostPorts == (FirstPort - 1)..(LastPort + 1)

InitPorts ==
  /\ now = 0
  /\ containers = <<>>
  /\ nextCid = 1
  /\ store = <<>>
  /\ uniqueIndex = TRUE
  /\ \E busy \in SUBSET HostPorts : last = [NoJournal EXCEPT !.busy = busy]
  /\ w = WorkerStarted
  /\ inflight = NoCall

FindPort ==
  LET r == portProbes(last.busy)
  IN
  /\ last.op = "none"
  /\ last' = [Journal("findAvailablePort") EXCEPT
                 !.busy = last.busy, !.port = r.port, !.probes = r.probes,
                 !.err = IF r.port = 0 THEN "ErrPortUnavailable" ELSE "nil"]
  /\ UNCHANGED <<now, containers, nextCid, store, uniqueIndex, w, inflight>>

PortsNext == FindPort

SpecPorts == InitPorts /\ [][PortsNext]_vars

SpecTree == InitTree /\ [][TreeNext]_vars

\* ----------------------------------------------------------- properties
\* what a reader of the store gets for a scenario id: the first match
Stored(st, scenarioID) == st[Min(Matching(st, scenarioID))]

ScenarioIDsDistinct ==
  \A i, k \in 1..Len(store) : store[i].scenario_id = store[k].scenario_id => i = k

\* C3: when the insert fails after StartScenario created the container, no
\* container the call created remains in the runtime when it returns,
\* whatever made the insert fail.
RollbackRemovesContainer ==
  (last.op = "StartScenario" /\ last.err = "failed to store scenario metadata") =>
    last.made \notin DOMAIN containers

\* C4: whatever the stored status was, when the scenario's container is not
\* in the runtime, GetScenarioStatus returns "stopped" and the stored status
\* is "stopped" afterwards.
MissingContainerMeansStopped ==
  (last.op = "GetScenarioStatus" /\ last.err = "nil" /\ last.cpre = "absent") =>
    /\ last.status = "stopped"
    /\ Stored(store, last.id).status = "stopped"

\* GetScenarioStatus has just found the container of a cleaned_up scenario
\* missing
CleanedUpFoundMissing ==
  /\ last.op = "GetScenarioStatus" /\ last.err = "nil" /\ ~last.stale
  /\ last.cpre = "absent" /\ last.pre = "cleaned_up"
  /\ last.status = "stopped"

\* C5: when the container exists and its live status is read,
\* GetScenarioStatus returns and leaves in the store: "running" if the
\* stored status is provisioning and the live one running; "stopped" if the
\* live one is exited or stopped; the stored status otherwise.
ReconciliationRule ==
  (last.op = "GetScenarioStatus" /\ last.err = "nil"
     /\ last.cpre \notin {"", "absent"} /\ last.cstatus = last.cpre) =>
    LET new == IF last.pre = "provisioning" /\ last.cpre = "running" THEN "running"
               ELSE IF last.cpre \in {"exited", "stopped"} THEN "stopped"
               ELSE last.pre
    IN /\ last.status = new
       /\ Stored(store, last.id).status = new

\* GetScenarioStatus has just promoted a provisioning scenario
PromotedToRunning ==
  /\ last.op = "GetScenarioStatus" /\ last.err = "nil" /\ ~last.stale
  /\ last.pre = "provisioning" /\ last.cpre = "running"
  /\ last.status = "running"
  /\ Stored(store, last.id).status = "running"

\* C6: when nothing else runs and the container's runtime state does not
\* change between two consecutive GetScenarioStatus calls on a scenario,
\* both return the same status and the second does not advance the stored
\* updated_at.
StatusIdempotent ==
  [][(/\ last.op = "GetScenarioStatus" /\ last.err = "nil"
      /\ last'.op = "GetScenarioStatus" /\ last'.err = "nil"
      /\ last'.id = last.id /\ ~last'.stale)
     => /\ last'.status = last.status
        /\ Stored(store', last.id).updated_at = Stored(store, last.id).updated_at]_vars

\* C7: StopScenario called twice in a row on an existing scenario returns
\* success both times and leaves the stored status "stopped"; the second
\* call, which finds the container absent, still succeeds and persists
\* "stopped".
StopIdempotent ==
  [][(/\ last.op = "StopScenario" /\ last.pre # ""
      /\ last'.op = "StopScenario" /\ last'.id = last.id /\ ~last'.stale)
     => /\ last.err = "nil"
        /\ last'.err = "nil"
        /\ last'.wrote
        /\ Stored(store', last.id).status = "stopped"]_vars

\* a StopScenario call has just found the scenario stopped and its container
\* absent, and succeeded
StoppedAgain ==
  /\ last.op = "StopScenario" /\ last.err = "nil" /\ ~last.stale
  /\ last.pre = "stopped" /\ last.cpre = "absent"
  /\ Stored(store, last.id).status = "stopped"

\* C8: GetTerminalURL fails with NotRunning for every scenario whose stored
\* status is not "running", also when its container is already running, and
\* makes no runtime call then.
TerminalNeedsRunning ==
  (last.op = "GetTerminalURL" /\ last.pre \in {"provisioning", "stopped", "cleaned_up"}) =>
    /\ last.err = "ErrScenarioNotRunning"
    /\ last.calls = <<>>

\* GetTerminalURL has just refused a provisioning scenario whose container
\* is running
FreshScenarioRefused ==
  /\ last.op = "GetTerminalURL" /\ ~last.stale
  /\ last.pre = "provisioning" /\ last.cpre = "running"
  /\ last.err = "ErrScenarioNotRunning"

\* C9: after one cleanup cycle that no manager call interleaves, every
\* document that had status running or provisioning and a created_at older
\* than max-age has status "cleaned_up", and its container is no longer in
\* the runtime.
ExpiredSweepCleansUp ==
  [][(last'.op = "RunPeriodicCleanup" /\ ~last'.stale)
     => \A k \in 1..Len(store) :
          (/\ store[k].status \in {"running", "provisioning"}
           /\ store[k].created_at < now - MaxScenarioAge)
          => /\ store'[k].status = "cleaned_up"
             /\ store[k].container_id \notin DOMAIN containers']_vars

\* C10: after one orphan sweep every container of the runtime's list that no
\* stored document references has been stopped and removed, and the sweep
\* has not touched a container that a stored document references, whatever
\* the document's status.
OrphanSweepRemovesOnlyOrphans ==
  [][(last'.op = "RunPeriodicCleanup" /\ ~last'.stale)
     => \A c \in DOMAIN containers :
          IF \E k \in 1..Len(store') : store'[k].container_id = c
          THEN c \notin last'.touched
          ELSE c \notin DOMAIN containers']_vars

\* a cycle has just removed an orphan and left the container of a stopped
\* scenario in place
OrphanRemovedOthersKept ==
  /\ last.op = "RunPeriodicCleanup" /\ ~last.stale
  /\ last.touched # {}
  /\ last.touched \cap DOMAIN containers = {}
  /\ \E k \in 1..Len(store) :
       /\ store[k].container_id \in DOMAIN containers
       /\ store[k].status = "stopped"

\* C11: for every interleaving of a cleanup cycle with a StartScenario call,
\* the orphan sweep does not stop or remove the container of a call that
\* returns success: no successful call returns with its container taken by
\* the sweep as an orphan.
SweepSparesStartingScenario ==
  (last.op = "StartScenario" /\ last.err = "nil") => ~last.orphaned

\* C12: for a listing that holds the root and the parent directory of every
\* listed path, each returned node but the root has its path in the children
\* of exactly one returned node, its parent directory, and the children of
\* the returned root node are the root's immediate entries.
TreeLinksEveryNode ==
  LET output == last.output
      paths == {output[k][1] : k \in 1..Len(output)}
      complete == /\ \A k \in 1..Len(output) : keptLine(output[k])
                  /\ \A j, k \in 1..Len(output) : output[j][1] = output[k][1] => j = k
                  /\ Root \in paths
                  /\ \A q \in paths \ {Root} : Dir(q) \in paths
  IN
  (last.op = "parseDirectoryStructure" /\ complete) =>
    LET nodes == last.structure
        N == 1..Len(nodes)
        entry(q) == Len(q) = Len(Root) + 2 /\ HasPrefix(q, Root \o <<"/">>)
    IN /\ \A k \in N : nodes[k].path # Root =>
            /\ Cardinality({j \in N : nodes[k].path \in nodes[j].children}) = 1
            /\ \A j \in N : nodes[k].path \in nodes[j].children
                              => nodes[j].path = Dir(nodes[k].path)
       /\ \A k \in N : nodes[k].path = Root =>
            nodes[k].children = {nodes[j].path : j \in {i \in N : entry(nodes[i].path)}}

MissingScenarioIsNotFound ==
  [][(/\ last'.op \in {"GetScenarioStatus", "GetTerminalURL", "StopScenario",
                        "GetDirectoryStructure"}
      /\ ~last'.stale
      /\ last'.id # EmptyID
      /\ Matching(store, last'.id) = {})
     => /\ last'.err = "ErrScenarioNotFound"
        /\ last'.calls = <<>>
        /\ containers' = containers
        /\ store' = store]_vars

\* GetDirectoryStructure has just been refused for an id that is not stored,
\* while the store holds another scenario whose container runs
MissingScenarioRefused ==
  /\ last.op = "GetDirectoryStructure" /\ ~last.stale
  /\ last.id = MissingID
  /\ last.err = "ErrScenarioNotFound"
  /\ \E k \in 1..Len(store) : CState(containers, store[k].container_id) = "running"

\* C15: when the runtime's existence check or its status query fails during
\* GetScenarioStatus, the call returns no error, carries the status the store
\* holds, annotated as status unavailable, and does not write to the store.
RuntimeFailureServesStoredStatus ==
  [][(/\ last'.op = "GetScenarioStatus" /\ ~last'.stale
      /\ last'.failed \in {"ContainerExists", "GetContainerStatus"})
     => /\ last'.err = "nil"
        /\ last'.status = Stored(store, last'.id).status
        /\ last'.message = "Container status unavailable"
        /\ store' = store]_vars

\* the status query has just failed for a scenario stored as running whose
\* container has exited: the call answered "running"
StaleStatusServed ==
  /\ last.op = "GetScenarioStatus" /\ ~last.stale
  /\ last.failed = "GetContainerStatus"
  /\ last.pre = "running" /\ last.cpre = "exited"
  /\ last.err = "nil" /\ last.status = "running"

\* C16: when the stored status is running and the container exists and runs
\* but has no host-port mapping for 3000/tcp, GetTerminalURL fails with the
\* NotRunning error: ErrScenarioNotRunning is the returned error or the one
\* it wraps.
UnmappedPortIsNotRunning ==
  (/\ last.op = "GetTerminalURL"
   /\ last.pre = "running" /\ last.cpre = "running"
   /\ last.cause = "port 3000 not mapped")
  => "ErrScenarioNotRunning" \in {last.err, last.cause}

\* C17: the stored status only moves forward in the order provisioning,
\* running, stopped, cleaned_up: no step of a manager operation or of the
\* worker changes the status of a document to an earlier stage; a cleaned_up
\* document stays cleaned_up and a stopped one never becomes running.
StatusOnlyAdvances ==
  [][\A k \in 1..Len(store) :
       LET stage(status) == CASE status = "provisioning" -> 1
                              [] status = "running" -> 2
                              [] status = "stopped" -> 3
                              [] status = "cleaned_up" -> 4
       IN stage(store'[k].status) >= stage(store[k].status)]_vars

\* C18: within a cleanup pass a failure on one item does not abort the pass:
\* when one expired scenario fails, every other expired scenario of the pass
\* is processed (its container is gone and a document with its id is
\* cleaned_up); when one orphan fails, every other orphan the sweep listed is
\* removed.
ItemFailureDoesNotAbortPass ==
  [][(last'.op = "RunPeriodicCleanup" /\ ~last'.stale /\ last'.fault)
     => LET kind == last'.plan[1]
            at == last'.plan[2]
            found == findExpiredScenarios(store, now, MaxScenarioAge, "none").list
            listed == last'.listed
        IN /\ ExpiredItemFault(kind) # "none" =>
                \A j \in (1..Len(found)) \ {at} :
                  /\ found[j].container_id \notin DOMAIN containers'
                  /\ \E k \in 1..Len(store') :
                       /\ store'[k].scenario_id = found[j].scenario_id
                       /\ store'[k].status = "cleaned_up"
           /\ OrphanItemFault(kind) # "none" =>
                \A j \in (1..Len(listed)) \ {at} :
                  listed[j] \notin last'.refs => listed[j] \notin DOMAIN containers']_vars

\* the stop of the first of two orphans has just failed and the second orphan
\* has been removed
SecondOrphanStillRemoved ==
  /\ last.op = "RunPeriodicCleanup" /\ ~last.stale
  /\ last.plan = <<"o_stop", 1>>
  /\ last.listed = <<1, 2>> /\ last.refs = {}
  /\ DOMAIN containers = {1}

\* C19: RunPeriodicCleanup returns only when its context is cancelled, and a
\* cycle in which a pass returned an error (a failed store query, a failed
\* listing, a failed item) leaves the loop waiting for the next tick.
LoopEndsOnlyOnCancel ==
  [][/\ (w.loop = "waiting" /\ w'.loop = "returned") => w.ctx = "cancelled"
     /\ (/\ last'.op = "RunPeriodicCleanup" /\ ~last'.stale
         /\ (last'.fault \/ last'.err # "nil" \/ last'.oerr # "nil"))
        => w'.loop = "waiting"]_vars

\* a cycle has just run right after a cycle that returned an error
CycleFollowsFailedCycle ==
  /\ last.op = "RunPeriodicCleanup" /\ ~last.stale
  /\ last.after
  /\ w.loop = "waiting"

\* C20: after the worker receives a shutdown signal the loop stops promptly:
\* the loop's context is cancelled on the signal, and no cleanup cycle starts
\* after the signal.
ShutdownStopsLoopPromptly ==
  [][/\ (w.main = "serving" /\ w'.main # "serving") => w'.ctx = "cancelled"
     /\ (last'.op = "RunPeriodicCleanup" /\ ~last'.stale) => w.main = "serving"]_vars

\* C21: no manager operation writes status "cleaned_up": a document takes that
\* status only in a step of the worker, and a document that a manager
\* operation inserts or rewrites does not carry it.
ManagerOps ==
  {"StartScenario", "GetScenarioStatus", "GetTerminalURL", "StopScenario",
   "GetDirectoryStructure"}

OnlyWorkerWritesCleanedUp ==
  [][\A k \in 1..Len(store') :
       LET fresh == k > Len(store)
           becomes == store'[k].status = "cleaned_up"
                      /\ (fresh \/ store[k].status # "cleaned_up")
           written == fresh \/ store'[k] # store[k]
       IN /\ becomes => last'.op = "RunPeriodicCleanup"
          /\ (last'.op \in ManagerOps /\ written) => store'[k].status # "cleaned_up"]_vars

\* a worker cycle has just set a document to cleaned_up
WorkerWroteCleanedUp ==
  /\ last.op = "RunPeriodicCleanup" /\ ~last.stale
  /\ last.expired # <<>>
  /\ \E k \in 1..Len(store) :
       store[k].status = "cleaned_up" /\ store[k].updated_at = now

\* C22: after a document is inserted its scenario_id, user_id, scenario_type,
\* container_id, terminal_port and created_at never change, whichever
\* operation writes the store.
CreationFieldsNeverChange ==
  [][\A k \in 1..Len(store) :
       /\ k <= Len(store')
       /\ store'[k].scenario_id = store[k].scenario_id
       /\ store'[k].user_id = store[k].user_id
       /\ store'[k].scenario_type = store[k].scenario_type
       /\ store'[k].container_id = store[k].container_id
       /\ store'[k].terminal_port = store[k].terminal_port
       /\ store'[k].created_at = store[k].created_at]_vars

\* C23: findAvailablePort probes 3001..3009 in ascending order and nothing
\* else, returns the first free port of the range, and fails with
\* ErrPortUnavailable after nine probes exactly when no port of the range is
\* free.
PortProbeBounded ==
  last.op = "findAvailablePort" =>
    LET n == Len(last.probes)
        range == FirstPort..LastPort
    IN /\ n <= LastPort - FirstPort + 1
       /\ \A i \in 1..n : last.probes[i] = FirstPort + i - 1
       /\ last.err \in {"nil", "ErrPortUnavailable"}
       /\ last.err = "nil" =>
            /\ last.port \in range \ last.busy
            /\ \A p \in FirstPort..(last.port - 1) : p \in last.busy
            /\ n >= 1 /\ last.probes[n] = last.port
       /\ last.err = "ErrPortUnavailable" =>
            /\ range \subseteq last.busy
            /\ n = LastPort - FirstPort + 1
       /\ range \subseteq last.busy => last.err = "ErrPortUnavailable"

\* every port of the range was taken and the call failed after nine probes
PortsExhausted ==
  /\ last.op = "findAvailablePort"
  /\ last.err = "ErrPortUnavailable"
  /\ Len(last.probes) = 9

\* C24: GetDirectoryStructure on a scenario whose container is not in the
\* runtime fails with ErrScenarioNotRunning, executes no command in the
\* runtime and leaves the store and the runtime as they were.
MissingContainerListsNothing ==
  [][(last'.op = "GetDirectoryStructure" /\ ~last'.stale /\ last'.cpre = "absent")
     => /\ last'.err = "ErrScenarioNotRunning"
        /\ \A i \in 1..Len(last'.calls) : last'.calls[i] # "ExecuteCommand"
        /\ last'.structure = <<>>
        /\ store' = store
        /\ containers' = containers]_vars

\* the listing of a stored scenario whose container is gone was just refused
ListingRefusedWithoutContainer ==
  /\ last.op = "GetDirectoryStructure" /\ ~last.stale
  /\ last.cpre = "absent"
  /\ last.cid # NoContainer /\ last.cid \notin DOMAIN containers
  /\ last.err = "ErrScenarioNotRunning"
  /\ last.calls = <<"ContainerExists">>

\* C25: for GetTerminalURL both transports map the error kinds: NotFound is
\* HTTP 404 and NOT_FOUND, NotRunning is HTTP 409 and FAILED_PRECONDITION.
TerminalErrorsMapped ==
  last.op = "GetTerminalURL" =>
    /\ last.err = "ErrScenarioNotFound" =>
         GetTerminalURLREST(last) = 404 /\ GRPCGetTerminalURL(last) = "NOT_FOUND"
    /\ last.err = "ErrScenarioNotRunning" =>
         GetTerminalURLREST(last) = 409 /\ GRPCGetTerminalURL(last) = "FAILED_PRECONDITION"

\* C26: StopContainer called again on a container that the previous
\* StopContainer call stopped and removed returns no error.
StopContainerAgainSucceeds ==
  [][(/\ last.op = "RealClient.StopContainer" /\ last.err = "nil"
      /\ last.cpre = "running"
      /\ last'.op = "RealClient.StopContainer" /\ last'.cid = last.cid
      /\ ~last'.stale)
     => last'.err = "nil"]_vars

\* C27: whenever GetScenarioStatus returns a status different from the one it
\* loaded, the store holds the returned status when the call returns, also
\* when the store update reports a failure.
ReconciledStatusIsPersisted ==
  [][(/\ last'.op = "GetScenarioStatus" /\ ~last'.stale
      /\ last'.err = "nil" /\ last'.pre # ""
      /\ last'.status # last'.pre)
     => GetScenario(store', last'.id, "none").s.status = last'.status]_vars

\* C28: whenever StartScenario returns an error (invalid input, runtime
\* failure, the caller's context cancelled or timed out, store failure) the
\* store holds no document created by that call.
FailedStartLeavesNoRecord ==
  [][(last'.op = "StartScenario" /\ ~last'.stale /\ last'.err # "nil")
     => store' = store]_vars

\* C29: when the runtime's stop and remove fails for another reason than a
\* missing container, StopScenario returns an error and leaves the stored
\* record as it was; a StopScenario call that follows and meets no failure
\* succeeds and the record is stopped.
FailedStopCanBeRetried ==
  [][/\ (/\ last'.op = "StopScenario" /\ ~last'.stale
         /\ last'.err = "failed to stop container")
        => store' = store
     /\ (/\ last'.op = "StopScenario" /\ ~last'.stale /\ last'.fault
         /\ last'.cid \in DOMAIN containers')
        => (last'.err # "nil" /\ store' = store)
     /\ (/\ last'.op = "StopScenario" /\ ~last'.stale
         /\ last'.retried /\ ~last'.fault)
        => /\ last'.err = "nil"
           /\ GetScenario(store', last'.id, "none").s.status = "stopped"
           /\ last'.cid \notin DOMAIN containers']_vars

\* a StopScenario call has just succeeded right after one of the same scenario
\* whose remove failed
StopRetrySucceeded ==
  /\ last.op = "StopScenario" /\ ~last.stale
  /\ last.retried /\ last.err = "nil"
  /\ last.cpre = "exited"
  /\ GetScenario(store, last.id, "none").s.status = "stopped"

\* C30: GetTerminalURL on a scenario stored as running whose container no
\* longer exists fails with ErrScenarioNotRunning and is read-only: the record
\* stays as it was (status running) and no container is created, stopped or
\* removed.
TerminalOfMissingContainerIsReadOnly ==
  [][(last'.op = "GetTerminalURL" /\ ~last'.stale)
     => /\ store' = store
        /\ containers' = containers
        /\ nextCid' = nextCid
        /\ \A i \in 1..Len(last'.calls) :
             last'.calls[i] \in {"ContainerExists", "GetTerminalURL"}
        /\ (last'.pre = "running" /\ last'.cpre = "absent")
           => /\ last'.err = "ErrScenarioNotRunning"
              /\ last'.url = <<>>
              /\ last'.calls = <<"ContainerExists">>
              /\ GetScenario(store', last'.id, "none").s.status = "running"]_vars

\* the address of a running scenario whose container is gone was just refused
TerminalRefusedWithoutContainer ==
  /\ last.op = "GetTerminalURL" /\ ~last.stale
  /\ last.pre = "running" /\ last.cpre = "absent"
  /\ last.err = "ErrScenarioNotRunning"
  /\ GetScenario(store, last.id, "none").s.status = "running"
  /\ last.cid \notin DOMAIN containers

\* C31: the expired-scenario sweep selects exactly the documents whose status
\* is provisioning or running and whose created_at is before now minus
\* max-age; a document that is stopped, cleaned_up or not that old when the
\* query runs is not modified and its container is neither stopped nor
\* removed.
ExpiredSweepSelectsExactly ==
  [][(last'.op = "RunPeriodicCleanup" /\ ~last'.stale)
     => LET Old(d) == /\ d.status \in {"provisioning", "running"}
                      /\ d.created_at < now - MaxScenarioAge
            chosen == SelectSeq(store, Old)
        IN /\ last'.expired = [k \in 1..Len(chosen) |-> chosen[k].scenario_id]
           /\ \A k \in 1..Len(store) :
                ~Old(store[k]) =>
                  /\ store'[k] = store[k]
                  /\ store[k].container_id \in DOMAIN containers =>
                       /\ store[k].container_id \in DOMAIN containers'
                       /\ containers'[store[k].container_id]
                            = containers[store[k].container_id]]_vars

\* C32: the two passes of a cycle are order-insensitive: without failures, the
\* store and the runtime a cycle leaves (expired-scenario sweep, then orphan
\* sweep) are those that the orphan sweep followed by the expired-scenario
\* sweep leaves from the same state.
PassesCommute ==
  [][(last'.op = "RunPeriodicCleanup" /\ ~last'.stale /\ ~last'.fault)
     => LET o == CleanupOrphanedContainers(store, containers, NoCycleFault)
            e == CleanupExpiredScenarios(store, o.cs, now, NoCycleFault)
        IN store' = e.st /\ containers' = e.cs]_vars

\* C33: the tree builder emits a node for a listed path if and only if the
\* path is the root or a descendant of it and is not under a denylisted cache
\* prefix; a sibling of the root whose name begins with the root's characters
\* yields no node.
NodesAreExactlyWorkspacePaths ==
  last.op = "parseDirectoryStructure" =>
    LET output == last.output
        listed(line) == IF Len(line) = 3 THEN line[1] \o <<" ">> \o line[2] ELSE line[1]
        under(path, dir) == path = dir \/ HasPrefix(path, dir \o <<"/">>)
        wanted(path) == /\ under(path, Root)
                        /\ \A pattern \in CachePatterns : ~under(path, pattern)
    IN {last.structure[k].path : k \in 1..Len(last.structure)}
         = {listed(output[k]) : k \in {i \in 1..Len(output) : wanted(listed(output[i]))}}

\* C34: a StopScenario call that races with another StopScenario call on the
\* same scenario, or with the worker removing the same container, returns
\* success and leaves the record stopped, whichever engine request (inspect,
\* stop, remove) finds the container gone.
RacingStopsSucceed ==
  (last.op = "StopScenario" /\ last.calls # <<>> /\ last.calls[1] = "ContainerInspect")
    => /\ last.err = "nil"
       /\ GetScenario(store, last.id, "none").s.status = "stopped"

\* C35: when a StopScenario call succeeds between the reads and the write of
\* a GetScenarioStatus call on the same scenario, the stored status after both
\* have returned is stopped: the snapshot read before the stop is not written
\* back as running.
StopIsNotOverwritten ==
  [][(/\ inflight # NoCall
      /\ inflight.call = "GetScenarioStatus"
      /\ last.op = "StopScenario"
      /\ last.err = "nil"
      /\ last.id = inflight.id
      /\ last'.op = "GetScenarioStatus")
     => GetScenario(store', inflight.id, "none").s.status = "stopped"]_vars

\* C36: while the worker keeps running cycles and every call succeeds, a
\* container created for a scenario is eventually removed from the runtime
\* once the scenario is older than max-age, also when the container exited on
\* its own and GetScenarioStatus demoted the record to stopped.
NoContainerLeakedForever ==
  \A c \in 1..MaxContainers :
    (/\ c \in DOMAIN containers
     /\ \E k \in 1..Len(store) : /\ store[k].container_id = c
                                 /\ store[k].created_at < now - MaxScenarioAge)
      ~> (c \notin DOMAIN containers)

\* C37: when the expired-scenario sweep sets a record to cleaned_up, the
\* record's container is not in the runtime at the end of the sweep, also when
\* the existence check, the status query or the removal fails.
CleanedUpMeansContainerGone ==
  [][last'.op = "RunPeriodicCleanup"
     => \E e \in {CleanupExpiredScenarios(store, containers, now, last'.plan)} :
          \A k \in 1..Len(store) :
            (store[k].status # "cleaned_up" /\ e.st[k].status = "cleaned_up")
              => e.st[k].container_id \notin DOMAIN e.cs]_vars

\* C38: the orphan sweep stops or removes a container only if no stored
\* record references it, also when the store read is faulty: when the query
\* for the referenced container ids fails the sweep touches nothing, and when
\* a record fails to decode no referenced container is touched.
OrphanSweepSparesReferenced ==
  [][last'.op = "RunPeriodicCleanup"
     => /\ \A k \in 1..Len(store') : store'[k].container_id \notin last'.touched
        /\ last'.oerr # "nil" => (last'.touched = {} /\ containers' =
              CleanupExpiredScenarios(store, containers, now, last'.plan).cs)]_vars

\* C39: when StartScenarioContainer returns an error after the engine created
\* the container (the start fails, the inspect after the start fails, or the
\* container has exited at once), the container that call created is not in
\* the runtime when StartScenario returns.
FailedStartLeavesNoContainer ==
  (/\ last.op = "StartScenario"
   /\ last.err = "failed to provision container"
   /\ last.made # NoContainer)
    => last.made \notin DOMAIN containers

====
